---- MODULE Spec2Model ----
(***************************************************************************)
(* Model of the seller-apis batch jobs: src/seller.py (platform A, Ozon)   *)
(* and src/market.py (platform B, Yandex Market).                          *)
(*                                                                         *)
(* Strings that the code only compares (offer ids, messages) are TLA+      *)
(* strings.  Strings that the code parses (quantities, prices) are tuples  *)
(* of one-character strings, so that int() and re.sub() are computed.      *)
(* Inventory product codes are integers as read from the spreadsheet, and  *)
(* str() turns them into offer-id strings.                                 *)
(* Record fields Kod / Kolichestvo / Tsena stand for the spreadsheet       *)
(* columns "Код" / "Количество" / "Цена".                                  *)
(***************************************************************************)
EXTENDS Integers, Sequences, FiniteSets, TLC

(***************************************************************************)
(* Bounds of the model.                                                    *)
(***************************************************************************)
\* rows of the inventory given to create_stocks when it is called directly
MaxInv == 2
\* rows of the inventory spreadsheet downloaded in a run of main
MaxRunInv == 1
\* products in a marketplace catalog (length of a listing)
MaxCatalog == 3
\* products deleted from a catalog while it is being listed
MaxRemovals == 1
\* clock ticks that can pass during a run
MaxClock == 2
\* clock readings per second (utcnow is truncated to whole seconds)
TicksPerSecond == 2
\* length of the list given to divide, and the chunk size given to it
MaxLen == 4
MaxN == 3
\* The batch and page sizes of the code, scaled down so that a payload of
\* MaxCatalog records spans several chunks and a catalog several pages:
\* seller.py:40 limit 1000, market.py:38 limit 200
SellerPageLimit == 2
MarketPageLimit == 2
\* seller.py:334 divide(stocks, 100), seller.py:338 divide(prices, 900)
SellerStockChunk == 2
SellerPriceChunk == 2
\* market.py:310/319 divide(stocks, 2000), market.py:261 divide(prices, 500)
MarketStockChunk == 2
MarketPriceChunk == 2

(***************************************************************************)
(* Input domains.                                                          *)
(***************************************************************************)
Codes == {1, 2}
OfferIds == {"1", "2"}
QGt10 == <<">", "1", "0">>
QOne == <<"1">>
Q42 == <<"4", "2">>
QBad == <<"a">>
Quantities == {QGt10, QOne, Q42, QBad}
PriceRub == <<"5", "'", "9", ".", "0", "0", " ", "p", ".">>
Prices == {PriceRub}
Records == [Kod : Codes, Kolichestvo : Quantities, Tsena : Prices]
Warehouses == [FBS |-> 11, DBS |-> 22]

SeqsUpTo(S, n) == UNION {[1..k -> S] : k \in 0..n}

Inventories == SeqsUpTo(Records, MaxInv)
RunInventories == SeqsUpTo(Records, MaxRunInv)
Listings == SeqsUpTo(OfferIds, MaxCatalog)

(***************************************************************************)
(* Python built-ins used by the code.                                      *)
(***************************************************************************)
DigitChars == <<"0", "1", "2", "3", "4", "5", "6", "7", "8", "9">>

IsDigit(c) == \E d \in 1..10 : DigitChars[d] = c

DigitVal(c) == (CHOOSE d \in 1..10 : DigitChars[d] = c) - 1

\* str(n) for a non-negative integer
RECURSIVE Str(_)
Str(n) == IF n < 10 THEN DigitChars[n + 1]
          ELSE Str(n \div 10) \o DigitChars[(n % 10) + 1]

\* int(s) for a string of decimal digits; anything else is a ValueError
RECURSIVE DigitsValue(_)
DigitsValue(cs) ==
    IF cs = << >> THEN 0
    ELSE 10 * DigitsValue(SubSeq(cs, 1, Len(cs) - 1)) + DigitVal(cs[Len(cs)])

IntRaises(cs) == cs = << >> \/ \E i \in 1..Len(cs) : ~IsDigit(cs[i])

ParseInt(cs) == DigitsValue(cs)

\* x in lst
In(x, l) == \E i \in 1..Len(l) : l[i] = x

NoRemove(l, x) == l

\* lst.remove(x): drops the first occurrence of x
Remove(l, x) ==
    LET i == CHOOSE k \in 1..Len(l) :
                 l[k] = x /\ \A j \in 1..(k - 1) : l[j] # x
    IN SubSeq(l, 1, i - 1) \o SubSeq(l, i + 1, Len(l))

Min(a, b) == IF a < b THEN a ELSE b

Indices(l) == [i \in 1..Len(l) |-> i]

(***************************************************************************)
(* State.                                                                  *)
(***************************************************************************)
VARIABLES
    entry,          \* the entry point running: "seller" or "market"
    pc,             \* position in the running function
    campaign,       \* market.main: the campaign being processed, FBS or DBS
    catalog,        \* platform: offer ids of the catalog while it is listed
    removed,        \* platform: catalog positions deleted during the listing
    last_id,        \* get_offer_ids: last_id (seller) / page (market) token
    some_prod,      \* get_offer_ids: the page response being processed
    product_list,   \* get_offer_ids: products collected so far
    listed,         \* the list get_offer_ids returned (before any mutation)
    offer_ids,      \* the caller's offer-id list (mutated by create_stocks)
    watch_remnants, \* inventory records returned by download_stock
    stocks,         \* main: stock payload
    prices,         \* main / upload_prices: price payload
    chunks,         \* list(divide(...)) still to be sent
    sent,           \* marketplace: update calls it accepted, in order
    console,        \* messages printed by main
    escaped,        \* exception that left main, or "none"
    failed,         \* an update call of this run has raised
    now,            \* clock, in ticks
    result,         \* outcome of the latest direct create_stocks call
    prev,           \* outcome of the create_stocks call before it
    calls,          \* number of direct create_stocks calls made
    lst,            \* divide: its list argument
    n,              \* divide: its chunk-size argument
    parts           \* divide: list(divide(lst, n)) once pc = "done"

vars == <<entry, pc, campaign, catalog, removed, last_id, some_prod,
          product_list, listed, offer_ids, watch_remnants, stocks, prices,
          chunks, sent, console, escaped, failed, now, result, prev, calls,
          lst, n, parts>>

listingVars == <<catalog, removed, last_id, some_prod, product_list>>
runVars == <<campaign, stocks, prices, chunks, sent, console, escaped, failed>>
fnVars == <<result, prev, calls>>
divVars == <<lst, n, parts>>

NoPage == [items |-> << >>, total |-> 0, token |-> 0]
NoResult == [exc |-> "not called", stocks |-> << >>, offer_ids |-> << >>,
             at |-> 0]

(***************************************************************************)
(* Reconciliation: create_stocks of both platforms.                        *)
(***************************************************************************)
NormalizeOneIsOne(raw) ==
    IF raw = QGt10 THEN [raised |-> FALSE, stock |-> 100]
    ELSE IF IntRaises(raw) THEN [raised |-> TRUE, stock |-> 0]
    ELSE [raised |-> FALSE, stock |-> ParseInt(raw)]

\* the quantity rule of create_stocks; raised means int() raised ValueError
Normalize(raw) ==
    LET count == raw
    IN IF count = QGt10 THEN [raised |-> FALSE, stock |-> 100]
       ELSE IF count = QOne THEN [raised |-> FALSE, stock |-> 0]
       ELSE IF IntRaises(raw) THEN [raised |-> TRUE, stock |-> 0]
       ELSE [raised |-> FALSE, stock |-> ParseInt(raw)]

SellerMissing(ids) ==
    [k \in 1..Len(ids) |-> [offer_id |-> ids[k], stock |-> 0]]

\* the two loops of seller.create_stocks over stocks (acc) and offer_ids (ids)
RECURSIVE SellerStocksLoop(_, _, _, _)
SellerStocksLoop(ws, i, acc, ids) ==
    IF i > Len(ws)
    THEN [exc |-> "none", stocks |-> acc \o SellerMissing(ids), offer_ids |-> ids]
    ELSE IF In(Str(ws[i].Kod), ids)
    THEN LET q == Normalize(ws[i].Kolichestvo)
         IN IF q.raised
            THEN [exc |-> "ValueError", stocks |-> << >>, offer_ids |-> ids]
            ELSE SellerStocksLoop(ws, i + 1,
                     Append(acc, [offer_id |-> Str(ws[i].Kod), stock |-> q.stock]),
                     Remove(ids, Str(ws[i].Kod)))
    ELSE SellerStocksLoop(ws, i + 1, acc, ids)

seller_create_stocks_leak(ws, ids) == SellerStocksLoop(ws, 1, result.stocks, ids)

seller_create_stocks_backwards(ws, ids) ==
    SellerStocksLoop([k \in 1..Len(ws) |-> ws[Len(ws) + 1 - k]], 1, << >>, ids)

seller_create_stocks(ws, ids) == SellerStocksLoop(ws, 1, << >>, ids)

\* utcnow().replace(microsecond = 0): the clock reading in whole seconds
UtcSeconds(t) == t \div TicksPerSecond

MarketSku(sku, warehouse_id, count, date) ==
    [sku |-> sku, warehouseId |-> warehouse_id,
     items |-> <<[count |-> count, type |-> "FIT", updatedAt |-> date]>>]

MarketMissing(ids, warehouse_id, date) ==
    [k \in 1..Len(ids) |-> MarketSku(ids[k], warehouse_id, 0, date)]

RECURSIVE MarketStocksLoop(_, _, _, _, _, _)
MarketStocksLoop(ws, i, acc, ids, warehouse_id, date) ==
    IF i > Len(ws)
    THEN [exc |-> "none", stocks |-> acc \o MarketMissing(ids, warehouse_id, date),
          offer_ids |-> ids]
    ELSE IF In(Str(ws[i].Kod), ids)
    THEN LET q == Normalize(ws[i].Kolichestvo)
         IN IF q.raised
            THEN [exc |-> "ValueError", stocks |-> << >>, offer_ids |-> ids]
            ELSE MarketStocksLoop(ws, i + 1,
                     Append(acc, MarketSku(Str(ws[i].Kod), warehouse_id, q.stock, date)),
                     Remove(ids, Str(ws[i].Kod)), warehouse_id, date)
    ELSE MarketStocksLoop(ws, i + 1, acc, ids, warehouse_id, date)

\* t is the clock reading when the call is made
market_create_stocks(ws, ids, warehouse_id, t) ==
    MarketStocksLoop(ws, 1, << >>, ids, warehouse_id, UtcSeconds(t))

(***************************************************************************)
(* Chunking.                                                               *)
(***************************************************************************)
divide_short(l, k) ==
    [c \in 1..((Len(l) + k - 1) \div k) |->
        SubSeq(l, (c - 1) * k + 1, Min((c - 1) * k + k - 1, Len(l)))]

\* list(divide(l, k)): the slices l[i : i + k] for i in range(0, len(l), k)
divide(l, k) ==
    [c \in 1..((Len(l) + k - 1) \div k) |->
        SubSeq(l, (c - 1) * k + 1, Min((c - 1) * k + k, Len(l)))]

(***************************************************************************)
(* Direct calls of create_stocks on drawn inputs.                          *)
(***************************************************************************)
IdleListing ==
    /\ catalog = << >> /\ removed = {} /\ last_id = 0
    /\ some_prod = NoPage /\ product_list = << >>

IdleRun ==
    /\ campaign = "none" /\ stocks = << >> /\ prices = << >> /\ chunks = << >>
    /\ sent = << >> /\ console = << >> /\ escaped = "none" /\ failed = FALSE

IdleFn == result = NoResult /\ prev = NoResult /\ calls = 0

IdleDiv == lst = << >> /\ n = 1 /\ parts = << >>

StocksInit ==
    /\ entry \in {"seller", "market"}
    /\ pc = "call"
    /\ watch_remnants \in Inventories
    /\ listed \in Listings
    /\ offer_ids = listed
    /\ now = 0
    /\ IdleListing /\ IdleRun /\ IdleFn /\ IdleDiv

\* create_stocks(watch_remnants, copy of the listing) on platform A
SellerCall ==
    /\ entry = "seller" /\ pc = "call" /\ calls < 2
    /\ LET r == seller_create_stocks(watch_remnants, listed)
       IN /\ result' = [exc |-> r.exc, stocks |-> r.stocks,
                        offer_ids |-> r.offer_ids, at |-> now]
          /\ offer_ids' = r.offer_ids
    /\ prev' = result
    /\ calls' = calls + 1
    /\ UNCHANGED <<entry, pc, listed, watch_remnants, now, listingVars, runVars, divVars>>

\* create_stocks(watch_remnants, copy of the listing, warehouse_id) on platform B
MarketCall ==
    /\ entry = "market" /\ pc = "call" /\ calls < 2
    /\ LET r == market_create_stocks(watch_remnants, listed, Warehouses.FBS, now)
       IN /\ result' = [exc |-> r.exc, stocks |-> r.stocks,
                        offer_ids |-> r.offer_ids, at |-> now]
          /\ offer_ids' = r.offer_ids
    /\ prev' = result
    /\ calls' = calls + 1
    /\ UNCHANGED <<entry, pc, listed, watch_remnants, now, listingVars, runVars, divVars>>

\* time passes
Tick ==
    /\ now < MaxClock
    /\ now' = now + 1
    /\ UNCHANGED <<entry, pc, listed, offer_ids, watch_remnants, listingVars,
                   runVars, fnVars, divVars>>

StocksNext == SellerCall \/ MarketCall \/ Tick

StocksSpec == StocksInit /\ [][StocksNext]_vars

(***************************************************************************)
(* Direct calls of divide on drawn inputs.                                 *)
(***************************************************************************)
DivideInit ==
    /\ entry = "divide"
    /\ pc = "call"
    /\ lst \in SeqsUpTo({"a", "b", "c"}, MaxLen)
    /\ n \in 1..MaxN
    /\ parts = << >>
    /\ watch_remnants = << >> /\ listed = << >> /\ offer_ids = << >> /\ now = 0
    /\ IdleListing /\ IdleRun /\ IdleFn

DivideCall ==
    /\ entry = "divide" /\ pc = "call"
    /\ parts' = divide(lst, n)
    /\ pc' = "done"
    /\ UNCHANGED <<entry, lst, n, listed, offer_ids, watch_remnants, now,
                   listingVars, runVars, fnVars>>

DivideNext == DivideCall

DivideSpec == DivideInit /\ [][DivideNext]_vars

(***************************************************************************)
(* Price payloads.                                                         *)
(***************************************************************************)
\* price.split(".")[0]: the text before the first "."
BeforeDot(cs) ==
    IF \E i \in 1..Len(cs) : cs[i] = "."
    THEN SubSeq(cs, 1, (CHOOSE i \in 1..Len(cs) :
                           cs[i] = "." /\ \A j \in 1..(i - 1) : cs[j] # ".") - 1)
    ELSE cs

\* re.sub("[^0-9]", "", price.split(".")[0])
price_conversion(price) == SelectSeq(BeforeDot(price), IsDigit)

SellerPrice(watch) ==
    [auto_action_enabled |-> "UNKNOWN", currency_code |-> "RUB",
     offer_id |-> Str(watch.Kod), old_price |-> "0",
     price |-> price_conversion(watch.Tsena)]

\* seller.create_prices
seller_create_prices(ws, ids) ==
    LET hit == SelectSeq(ws, LAMBDA watch : In(Str(watch.Kod), ids))
    IN [k \in 1..Len(hit) |-> SellerPrice(hit[k])]

MarketPrice(watch) ==
    [id |-> Str(watch.Kod),
     price |-> [value |-> ParseInt(price_conversion(watch.Tsena)),
                currencyId |-> "RUR"]]

\* market.create_prices; int() of an empty digit string raises ValueError
market_create_prices(ws, ids) ==
    LET hit == SelectSeq(ws, LAMBDA watch : In(Str(watch.Kod), ids))
    IN IF \E k \in 1..Len(hit) : IntRaises(price_conversion(hit[k].Tsena))
       THEN [exc |-> "ValueError", prices |-> << >>]
       ELSE [exc |-> "none", prices |-> [k \in 1..Len(hit) |-> MarketPrice(hit[k])]]

(***************************************************************************)
(* The marketplaces' listing endpoints.  A catalog position is a product;  *)
(* pages are cut after the product the continuation token names.           *)
(***************************************************************************)
Live == (1..Len(catalog)) \ removed

\* the first `limit` live products after the product `token`
PagePositions(token, limit) ==
    LET after == SelectSeq(Indices(catalog), LAMBDA p : p > token /\ p \in Live)
    IN SubSeq(after, 1, Min(limit, Len(after)))

PageOfferIds(token, limit) ==
    LET ps == PagePositions(token, limit)
    IN [k \in 1..Len(ps) |-> catalog[ps[k]]]

LastOf(token, limit) ==
    LET ps == PagePositions(token, limit)
    IN IF ps = << >> THEN token ELSE ps[Len(ps)]

\* seller.get_product_list: {"items", "total", "last_id"}
SellerPage(token) ==
    [items |-> PageOfferIds(token, SellerPageLimit),
     total |-> Cardinality(Live),
     token |-> LastOf(token, SellerPageLimit)]

\* market.get_product_list: {"offerMappingEntries", "paging": {"nextPageToken"}};
\* token 0 is the absent (or empty) page token
MarketPage(token) ==
    [items |-> PageOfferIds(token, MarketPageLimit),
     total |-> 0,
     token |-> IF \E p \in Live : p > LastOf(token, MarketPageLimit)
               THEN LastOf(token, MarketPageLimit) ELSE 0]

\* the break test of the while loop of get_offer_ids
SellerListingDone(collected, page) == page.total = Len(collected)

MarketListingDone(collected, page) == page.token = 0

(***************************************************************************)
(* The entry points seller.main and market.main.                           *)
(***************************************************************************)
NetworkErrors == {"ReadTimeout", "ConnectionError", "HTTPError"}

\* the except clause of main that catches e, and what it prints
Handler(e) ==
    IF e = "ReadTimeout" THEN "timeout"
    ELSE IF e = "ConnectionError" THEN "connection error"
    ELSE "ERROR_2"

Init ==
    /\ entry \in {"seller", "market"}
    /\ pc = "main"
    /\ watch_remnants = << >> /\ listed = << >> /\ offer_ids = << >>
    /\ now = 0
    /\ IdleListing /\ IdleRun /\ IdleFn /\ IdleDiv

\* an exception raised inside the try block of main
Caught(e) ==
    /\ console' = Append(console, Handler(e))
    /\ pc' = "done"
    /\ UNCHANGED escaped

\* an exception raised outside the try block of main
Escapes(e) ==
    /\ escaped' = e
    /\ pc' = "done"
    /\ UNCHANGED console

\* get_offer_ids is entered: the platform holds some catalog
BeginListing(c) ==
    /\ catalog' \in Listings
    /\ removed' = {}
    /\ last_id' = 0
    /\ product_list' = << >>
    /\ some_prod' = NoPage
    /\ campaign' = c
    /\ pc' = "list_call"

\* seller.main up to the call of get_offer_ids
SellerStart ==
    /\ entry = "seller" /\ pc = "main"
    /\ BeginListing("ozon")
    /\ UNCHANGED <<entry, listed, offer_ids, watch_remnants, stocks, prices, chunks,
                   sent, console, escaped, failed, now, fnVars, divVars>>

\* download_stock returns the inventory records
DownloadOk ==
    /\ pc = IF entry = "seller" THEN "download" ELSE "main"
    /\ watch_remnants' \in RunInventories
    /\ IF entry = "seller"
       THEN /\ pc' = "create_stocks"
            /\ UNCHANGED <<campaign, listingVars>>
       ELSE BeginListing("FBS")
    /\ UNCHANGED <<entry, listed, offer_ids, stocks, prices, chunks, sent, console,
                   escaped, failed, now, fnVars, divVars>>

\* download_stock raises: inside the try of seller.main, before the try of
\* market.main
DownloadFails ==
    /\ pc = IF entry = "seller" THEN "download" ELSE "main"
    /\ \E e \in NetworkErrors :
          IF entry = "seller" THEN Caught(e) ELSE Escapes(e)
    /\ UNCHANGED <<entry, campaign, listingVars, listed, offer_ids, watch_remnants,
                   stocks, prices, chunks, sent, failed, now, fnVars, divVars>>

\* get_product_list returns a page
ListCall ==
    /\ pc = "list_call"
    /\ some_prod' = IF entry = "seller" THEN SellerPage(last_id)
                    ELSE MarketPage(last_id)
    /\ pc' = "list_resp"
    /\ UNCHANGED <<entry, campaign, catalog, removed, last_id, product_list, listed,
                   offer_ids, watch_remnants, stocks, prices, chunks, sent, console,
                   escaped, failed, now, fnVars, divVars>>

\* get_product_list raises (transport failure or raise_for_status)
ListCallFails ==
    /\ pc = "list_call"
    /\ \E e \in NetworkErrors : Caught(e)
    /\ UNCHANGED <<entry, campaign, listingVars, listed, offer_ids, watch_remnants,
                   stocks, prices, chunks, sent, failed, now, fnVars, divVars>>

\* the rest of one round of the while loop of get_offer_ids: extend, read the
\* token, test for the break; after the loop the offer ids are returned to main
ListExtend ==
    /\ pc = "list_resp"
    /\ LET collected == product_list \o some_prod.items
           done == IF entry = "seller"
                   THEN SellerListingDone(collected, some_prod)
                   ELSE MarketListingDone(collected, some_prod)
       IN IF done
          THEN /\ listed' = collected
               /\ offer_ids' = collected
               /\ pc' = IF entry = "seller" THEN "download" ELSE "create_stocks"
               /\ product_list' = << >>
               /\ last_id' = 0
               /\ some_prod' = NoPage
               /\ catalog' = << >>
               /\ removed' = {}
          ELSE /\ product_list' = collected
               /\ last_id' = some_prod.token
               /\ pc' = "list_call"
               /\ UNCHANGED <<listed, offer_ids, some_prod, catalog, removed>>
    /\ UNCHANGED <<entry, campaign, watch_remnants, stocks, prices,
                   chunks, sent, console, escaped, failed, now, fnVars, divVars>>

\* the seller deletes a product while the catalog is being listed
RemoveProduct ==
    /\ pc \in {"list_call", "list_resp"}
    /\ Cardinality(removed) < MaxRemovals
    /\ \E p \in Live : removed' = removed \cup {p}
    /\ UNCHANGED <<entry, pc, campaign, catalog, last_id, some_prod, product_list,
                   listed, offer_ids, watch_remnants, stocks, prices, chunks, sent,
                   console, escaped, failed, now, fnVars, divVars>>

\* main: stocks = create_stocks(...); list(divide(stocks, ...))
CreateStocks ==
    /\ pc = "create_stocks"
    /\ LET r == IF entry = "seller"
                THEN seller_create_stocks(watch_remnants, offer_ids)
                ELSE market_create_stocks(watch_remnants, offer_ids,
                                          Warehouses[campaign], now)
       IN /\ offer_ids' = r.offer_ids
          /\ IF r.exc = "none"
             THEN /\ stocks' = r.stocks
                  /\ chunks' = divide(r.stocks, IF entry = "seller"
                                                THEN SellerStockChunk
                                                ELSE MarketStockChunk)
                  /\ pc' = "update_stocks"
                  /\ UNCHANGED <<console, escaped>>
             ELSE /\ Caught(r.exc)
                  /\ UNCHANGED <<stocks, chunks>>
    /\ UNCHANGED <<entry, campaign, listingVars, listed, watch_remnants, prices, sent,
                   failed, now, fnVars, divVars>>

\* one round of "for some_stock in ...: update_stocks(some_stock, ...)"
UpdateStocksOk ==
    /\ pc = "update_stocks" /\ chunks # << >>
    /\ sent' = Append(sent, [call |-> "update_stocks", campaign |-> campaign,
                             payload |-> Head(chunks)])
    /\ chunks' = Tail(chunks)
    /\ UNCHANGED <<entry, pc, campaign, listingVars, listed, offer_ids,
                   watch_remnants, stocks, prices, console, escaped, failed, now,
                   fnVars, divVars>>

UpdateStocksContinues ==
    /\ pc = "update_stocks" /\ chunks # << >>
    /\ failed' = TRUE
    /\ chunks' = Tail(chunks)
    /\ UNCHANGED <<entry, pc, campaign, listingVars, listed, offer_ids,
                   watch_remnants, stocks, prices, sent, console, escaped, now,
                   fnVars, divVars>>

\* update_stocks raises: the loop and the try block are left
UpdateStocksFails ==
    /\ pc = "update_stocks" /\ chunks # << >>
    /\ failed' = TRUE
    /\ \E e \in NetworkErrors : Caught(e)
    /\ UNCHANGED <<entry, campaign, listingVars, listed, offer_ids, watch_remnants,
                   stocks, prices, chunks, sent, now, fnVars, divVars>>

\* seller.main after the stock loop: prices = create_prices(...);
\* list(divide(prices, 900))
SellerCreatePrices ==
    /\ entry = "seller" /\ pc = "update_stocks" /\ chunks = << >>
    /\ prices' = seller_create_prices(watch_remnants, offer_ids)
    /\ chunks' = divide(prices', SellerPriceChunk)
    /\ pc' = "update_price"
    /\ UNCHANGED <<entry, campaign, listingVars, listed, offer_ids, watch_remnants,
                   stocks, sent, console, escaped, failed, now, fnVars, divVars>>

\* one round of "for some_price in ...: update_price(some_price, ...)"
UpdatePriceOk ==
    /\ pc = "update_price" /\ chunks # << >>
    /\ sent' = Append(sent, [call |-> "update_price", campaign |-> campaign,
                             payload |-> Head(chunks)])
    /\ chunks' = Tail(chunks)
    /\ UNCHANGED <<entry, pc, campaign, listingVars, listed, offer_ids,
                   watch_remnants, stocks, prices, console, escaped, failed, now,
                   fnVars, divVars>>

\* update_price raises
UpdatePriceFails ==
    /\ pc = "update_price" /\ chunks # << >>
    /\ failed' = TRUE
    /\ \E e \in NetworkErrors : Caught(e)
    /\ UNCHANGED <<entry, campaign, listingVars, listed, offer_ids, watch_remnants,
                   stocks, prices, chunks, sent, now, fnVars, divVars>>

\* seller.main returns after the price loop
SellerDone ==
    /\ entry = "seller" /\ pc = "update_price" /\ chunks = << >>
    /\ pc' = "done"
    /\ UNCHANGED <<entry, campaign, listingVars, listed, offer_ids, watch_remnants,
                   stocks, prices, chunks, sent, console, escaped, failed, now,
                   fnVars, divVars>>

\* market.main after a stock loop: upload_prices(...) is called without await,
\* which builds a coroutine object and runs none of its body
MarketUploadPrices ==
    /\ entry = "market" /\ pc = "update_stocks" /\ chunks = << >>
    /\ pc' = "prices_returned"
    /\ UNCHANGED <<entry, campaign, listingVars, listed, offer_ids, watch_remnants,
                   stocks, prices, chunks, sent, console, escaped, failed, now,
                   fnVars, divVars>>

\* market.main goes on to the DBS campaign
MarketNextCampaign ==
    /\ entry = "market" /\ pc = "prices_returned" /\ campaign = "FBS"
    /\ BeginListing("DBS")
    /\ UNCHANGED <<entry, listed, offer_ids, watch_remnants, stocks, prices, chunks,
                   sent, console, escaped, failed, now, fnVars, divVars>>

\* market.main returns after the DBS campaign
MarketDone ==
    /\ entry = "market" /\ pc = "prices_returned" /\ campaign = "DBS"
    /\ pc' = "done"
    /\ UNCHANGED <<entry, campaign, listingVars, listed, offer_ids, watch_remnants,
                   stocks, prices, chunks, sent, console, escaped, failed, now,
                   fnVars, divVars>>

Next ==
    \/ SellerStart \/ DownloadOk \/ DownloadFails
    \/ ListCall \/ ListCallFails \/ ListExtend \/ RemoveProduct
    \/ CreateStocks
    \/ UpdateStocksOk \/ UpdateStocksFails
    \/ SellerCreatePrices \/ UpdatePriceOk \/ UpdatePriceFails \/ SellerDone
    \/ MarketUploadPrices \/ MarketNextCampaign \/ MarketDone

Spec == Init /\ [][Next]_vars

\* main runs on one thread that is never descheduled for good
FairSpec == Spec /\ WF_vars(Next)

(***************************************************************************)
(* Properties of create_stocks (StocksSpec).                               *)
(***************************************************************************)
Count(x, l) == Cardinality({i \in 1..Len(l) : l[i] = x})

Range(l) == {l[i] : i \in 1..Len(l)}

\* <<offer id, quantity>> of a stock update of either platform
Pair(rec) == IF entry = "seller" THEN <<rec.offer_id, rec.stock>>
             ELSE <<rec.sku, rec.items[1].count>>

Pairs(out) == [k \in 1..Len(out) |-> Pair(out[k])]

OutIds(out) == [k \in 1..Len(out) |-> Pair(out[k])[1]]

Returned == calls >= 1 /\ result.exc = "none"

\* quantities an inventory may give the offer id
InventoryStocks(id) ==
    {Normalize(watch_remnants[i].Kolichestvo).stock :
        i \in {j \in 1..Len(watch_remnants) : Str(watch_remnants[j].Kod) = id}}

\* C1: every offer id of the input list occurs exactly once in the returned
\* stock updates, with the quantity of a matching inventory record or with 0,
\* and no other offer id occurs in them.
C1_Completeness ==
    Returned =>
        /\ \A id \in Range(listed) : Count(id, OutIds(result.stocks)) = 1
        /\ \A k \in 1..Len(result.stocks) :
              /\ Pair(result.stocks[k])[1] \in Range(listed)
              /\ Pair(result.stocks[k])[2] \in
                     InventoryStocks(Pair(result.stocks[k])[1]) \cup {0}

\* the inventory record at position i is matched: fewer earlier records carry
\* its code than the listing has occurrences of it
IsMatched(i) ==
    Cardinality({j \in 1..(i - 1) :
                    watch_remnants[j].Kod = watch_remnants[i].Kod})
        < Count(Str(watch_remnants[i].Kod), listed)

\* the listing position p is left over: it is a later occurrence of its offer
\* id than the inventory has records of that code
IsLeftOver(p) ==
    Cardinality({j \in 1..p : listed[j] = listed[p]})
        > Cardinality({i \in 1..Len(watch_remnants) :
                          Str(watch_remnants[i].Kod) = listed[p]})

MatchedPart ==
    LET idx == SelectSeq(Indices(watch_remnants), LAMBDA i : IsMatched(i))
    IN [k \in 1..Len(idx) |->
           <<Str(watch_remnants[idx[k]].Kod),
             Normalize(watch_remnants[idx[k]].Kolichestvo).stock>>]

LeftOverPart ==
    LET idx == SelectSeq(Indices(listed), LAMBDA p : IsLeftOver(p))
    IN [k \in 1..Len(idx) |-> <<listed[idx[k]], 0>>]

\* C9: the returned list is the stock updates of the matched inventory
\* records in inventory order, followed by the zero-quantity updates of the
\* offer ids left unmatched, in listing order.
C9_TwoPhaseOrder ==
    Returned => Pairs(result.stocks) = MatchedPart \o LeftOverPart

C9_Witness ==
    /\ Returned
    /\ Len(MatchedPart) >= 1
    /\ Len(LeftOverPart) >= 1
    /\ \E i \in 1..Len(watch_remnants) : ~IsMatched(i)

\* a market stock update without its timestamp
StripDate(out) ==
    IF entry = "seller" THEN out
    ELSE [k \in 1..Len(out) |->
             [sku |-> out[k].sku, warehouseId |-> out[k].warehouseId,
              count |-> out[k].items[1].count, type |-> out[k].items[1].type]]

\* C8 as stated: two calls on the same inventory and a fresh copy of the same
\* offer-id list return identical lists.
C8_Idempotent ==
    calls = 2 => (result.exc = prev.exc /\ result.stocks = prev.stocks)

\* C8 amended: the two calls end the same way and return the same records in
\* the same order up to the updatedAt field of platform B, which is the clock
\* second of each call; the lists are identical on platform A, and on
\* platform B when both calls read the same clock second.
C8_IdempotentUpToTimestamp ==
    calls = 2 =>
        /\ result.exc = prev.exc
        /\ StripDate(result.stocks) = StripDate(prev.stocks)
        /\ (entry = "seller" \/ UtcSeconds(result.at) = UtcSeconds(prev.at))
               => result.stocks = prev.stocks
        /\ entry = "market" =>
               /\ \A k \in 1..Len(result.stocks) :
                     result.stocks[k].items[1].updatedAt = UtcSeconds(result.at)
               /\ \A k \in 1..Len(prev.stocks) :
                     prev.stocks[k].items[1].updatedAt = UtcSeconds(prev.at)

C8_Witness ==
    /\ calls = 2 /\ entry = "market" /\ result.exc = "none"
    /\ Len(result.stocks) >= 2
    /\ UtcSeconds(result.at) # UtcSeconds(prev.at)
    /\ result.stocks # prev.stocks

\* the decimal numeral of a non-negative integer, as characters
RECURSIVE DecimalChars(_)
DecimalChars(v) ==
    IF v < 10 THEN <<DigitChars[v + 1]>>
    ELSE DecimalChars(v \div 10) \o <<DigitChars[(v % 10) + 1]>>

IsNumeral(raw) == \E v \in 0..100 : DecimalChars(v) = raw

\* the quantity the rule of the specification gives a raw quantity that is a
\* sentinel or a numeral
ExpectedStock(raw) ==
    IF raw = <<">", "1", "0">> THEN 100
    ELSE IF raw = <<"1">> THEN 0
    ELSE CHOOSE v \in 0..100 : DecimalChars(v) = raw

HasStock(raw) == raw = <<">", "1", "0">> \/ IsNumeral(raw)

MatchedIndices == SelectSeq(Indices(watch_remnants), LAMBDA i : IsMatched(i))

\* C11: the call raises exactly when a matched inventory record has a raw
\* quantity that is neither a sentinel nor a numeral; otherwise the update
\* emitted for a matched record has quantity 100 for ">10", 0 for "1" and the
\* integer value of the raw quantity otherwise.
C11_QuantityRule ==
    calls >= 1 =>
        /\ result.exc = "ValueError" <=>
               \E i \in 1..Len(watch_remnants) :
                   IsMatched(i) /\ ~HasStock(watch_remnants[i].Kolichestvo)
        /\ result.exc = "none" =>
               \A k \in 1..Len(MatchedIndices) :
                   Pair(result.stocks[k])[2] =
                       ExpectedStock(watch_remnants[MatchedIndices[k]].Kolichestvo)

C11_Witness ==
    /\ Returned
    /\ \E i, j \in 1..Len(watch_remnants) :
          /\ IsMatched(i) /\ watch_remnants[i].Kolichestvo = QGt10
          /\ IsMatched(j) /\ watch_remnants[j].Kolichestvo = QOne
          /\ Pair(result.stocks[1])[2] = 100
          /\ Pair(result.stocks[2])[2] = 0

\* the inventory positions that carry the code of offer id c
RecordsOf(c) == {i \in 1..Len(watch_remnants) : Str(watch_remnants[i].Kod) = c}

FirstRecordOf(c) == CHOOSE i \in RecordsOf(c) : \A j \in RecordsOf(c) : i <= j

LastRecordOf(c) == CHOOSE i \in RecordsOf(c) : \A j \in RecordsOf(c) : j <= i

\* c is listed once and several inventory records carry it
IsDuplicated(c) == Count(c, listed) = 1 /\ Cardinality(RecordsOf(c)) >= 2

UpdatesOf(c) == {k \in 1..Len(result.stocks) : Pair(result.stocks[k])[1] = c}

\* C12 as stated: a code that several inventory records carry and that is
\* listed once gets a single stock update, with the normalized quantity of
\* the last of these records.
C12_LastWins ==
    Returned =>
        \A c \in OfferIds :
            (IsDuplicated(c) /\ HasStock(watch_remnants[LastRecordOf(c)].Kolichestvo)) =>
                /\ Cardinality(UpdatesOf(c)) = 1
                /\ \A k \in UpdatesOf(c) :
                      Pair(result.stocks[k])[2] =
                          ExpectedStock(watch_remnants[LastRecordOf(c)].Kolichestvo)

\* C12 amended: such a code gets a single stock update, with the normalized
\* quantity of the first of these records; the later records are skipped,
\* whatever their quantity.
C12_FirstWins ==
    Returned =>
        \A c \in OfferIds :
            IsDuplicated(c) =>
                /\ Cardinality(UpdatesOf(c)) = 1
                /\ \A k \in UpdatesOf(c) :
                      Pair(result.stocks[k])[2] =
                          ExpectedStock(watch_remnants[FirstRecordOf(c)].Kolichestvo)

C12_Witness ==
    /\ Returned
    /\ \E c \in OfferIds :
          /\ IsDuplicated(c)
          /\ watch_remnants[FirstRecordOf(c)].Kolichestvo = Q42
          /\ watch_remnants[LastRecordOf(c)].Kolichestvo = QGt10
          /\ \A k \in UpdatesOf(c) : Pair(result.stocks[k])[2] = 42

(***************************************************************************)
(* Properties of divide (DivideSpec).                                      *)
(***************************************************************************)
RECURSIVE Flatten(_)
Flatten(ps) == IF ps = << >> THEN << >> ELSE Head(ps) \o Flatten(Tail(ps))

\* C10: every chunk has between 1 and n elements, only the last chunk can
\* have fewer than n, the chunks concatenated in order give lst back, and the
\* empty list gives no chunk.
C10_Chunks ==
    pc = "done" =>
        /\ \A c \in 1..Len(parts) : Len(parts[c]) >= 1 /\ Len(parts[c]) <= n
        /\ \A c \in 1..(Len(parts) - 1) : Len(parts[c]) = n
        /\ Flatten(parts) = lst
        /\ lst = << >> => parts = << >>

C10_Witness ==
    /\ pc = "done"
    /\ Len(parts) >= 2
    /\ Len(parts[Len(parts)]) < n


(***************************************************************************)
(* Properties of the entry points (Spec, FairSpec).                        *)
(***************************************************************************)
\* the records of all update calls of one kind the marketplace accepted for
\* campaign c, in the order sent
RECURSIVE SentPayload(_, _, _)
SentPayload(log, call, c) ==
    IF log = << >> THEN << >>
    ELSE (IF Head(log).call = call /\ Head(log).campaign = c
          THEN Head(log).payload ELSE << >>) \o SentPayload(Tail(log), call, c)

SentCalls(call, c) ==
    Cardinality({k \in 1..Len(sent) : sent[k].call = call /\ sent[k].campaign = c})

SellerPriceIds ==
    LET recs == SentPayload(sent, "update_price", "ozon")
    IN [k \in 1..Len(recs) |-> recs[k].offer_id]

\* C2: when seller.main ends without a failure, the price updates sent hold
\* one price record for every inventory record whose code is a listed offer
\* id, and no record for any other offer id.
C2_PricesForListed ==
    (entry = "seller" /\ pc = "done" /\ console = << >>) =>
        \A id \in OfferIds :
            Count(id, SellerPriceIds) =
                IF In(id, listed)
                THEN Cardinality({i \in 1..Len(watch_remnants) :
                                     Str(watch_remnants[i].Kod) = id})
                ELSE 0

\* C3: when market.main has gone through a campaign without a failure, one
\* update_stocks call was made per chunk of the stock list and one update_price
\* call per chunk of the price list of that campaign.
C3_OneCallPerChunk ==
    (entry = "market" /\ pc = "prices_returned") =>
        /\ SentCalls("update_stocks", campaign)
              = Len(divide(stocks, MarketStockChunk))
        /\ SentCalls("update_price", campaign)
              = Len(divide(market_create_prices(watch_remnants, listed).prices,
                           MarketPriceChunk))

\* C4: no exception leaves main: every failure of a run ends in a printed
\* message.
C4_NothingEscapes ==
    pc = "done" => escaped = "none"

\* C5: whenever get_offer_ids is about to request a page, it eventually
\* returns (or raises): the listing makes finitely many page requests.
C5_ListingTerminates ==
    (pc = "list_call") ~> (pc \notin {"list_call", "list_resp"})

\* C6: no offer id occurs twice in the list get_offer_ids returned.
C6_Deduplicated ==
    \A i, j \in 1..Len(listed) : i # j => listed[i] # listed[j]

\* C7: once an update call has raised, the run makes no further update call
\* and ends at once; the marketplace keeps every update it accepted before.
C7_AbortOnFailure ==
    [][/\ failed => sent' = sent
       /\ (~failed /\ failed') => (pc' = "done" /\ sent' = sent)
       /\ Len(sent') >= Len(sent) /\ SubSeq(sent', 1, Len(sent)) = sent]_vars

C7_Witness ==
    /\ failed /\ pc = "done"
    /\ sent # << >>
    /\ chunks # << >>

====
